---- MODULE Spec2Model ----
(***************************************************************************)
(* Model of the credential router, pkg/server/router/credential.go.        *)
(*                                                                         *)
(* Strings are sequences of characters over a small alphabet that contains *)
(* the two characters log sanitization is about (line feed and carriage    *)
(* return).  A formatted message is the format's fixed text (one element)  *)
(* followed by the characters of the formatted argument.                   *)
(* The Credential Service is an environment: every call to it returns one  *)
(* of its possible results, chosen nondeterministically.                   *)
(***************************************************************************)
EXTENDS Integers, Sequences, FiniteSets, TLC

\* ------------------------------------------------------------------ bounds
MaxLen == 2
NumCreds == 2
MaxList == 2

\* --------------------------------------------------------------- constants
StatusOK == 200
StatusCreated == 201
StatusBadRequest == 400
StatusInternalServerError == 500

\* ----------------------------------------------------------------- strings
Chars == {"a", "LF", "CR"}
Strs == UNION {[1..k -> Chars] : k \in 0..MaxLen}
EmptyStr == << >>

\* optional string (*string): nil or a pointer to a value
NilPtr == [isNil |-> TRUE]
Ptr(s) == [isNil |-> FALSE, val |-> s]

\* fmt.Sprintf("<text>%s", arg)
Sprintf(text, arg) == <<text>> \o arg

\* hay has needle as a contiguous run of characters
Contains(hay, needle) ==
    \E i \in 0..(Len(hay) - Len(needle)) :
        SubSeq(hay, i + 1, i + Len(needle)) = needle

\* util.SanitizeLog: the value with line breaks removed
SanitizeLog(s) == SelectSeq(s, LAMBDA c : c \notin {"LF", "CR"})

\* framework.GetParam / framework.GetQueryValue: the optional parameter of a
\* request; an empty or absent parameter is nil
GetParam(raw) == IF raw.isNil \/ raw.val = EmptyStr THEN NilPtr ELSE Ptr(raw.val)
GetQueryValue(raw) == IF raw = EmptyStr THEN NilPtr ELSE Ptr(raw)

\* ------------------------------------------------------------- credentials
\* credential k of the Credential Service; its identifier is k characters
Cred(k) == [ID |-> [j \in 1..k |-> "a"], Claim |-> k]
Creds == {Cred(k) : k \in 1..NumCreds}
CredLists == UNION {[1..n -> Creds] : n \in 0..MaxList}

NoErr == "nil"
SvcErrs == {"not found", "storage failure"}

\* results of a Credential Service call that returns one credential, a list
\* of credentials, or nothing
SvcCredResults == {[err |-> e] : e \in SvcErrs} \cup {[err |-> NoErr, cred |-> c] : c \in Creds}
SvcListResults == {[err |-> e] : e \in SvcErrs} \cup {[err |-> NoErr, creds |-> l] : l \in CredLists}
SvcVoidResults == {[err |-> e] : e \in SvcErrs \cup {NoErr}}

\* ------------------------------------------------------- wire create request
FieldVals == {EmptyStr, <<"a">>, <<"a", "a">>}
NilData == [isNil |-> TRUE]
DataVals == {NilData, [isNil |-> FALSE, name |-> "x"], [isNil |-> FALSE, name |-> "y"]}
CreateCredentialRequest ==
    [Issuer : FieldVals, Subject : FieldVals, Context : FieldVals,
     Schema : FieldVals, Data : DataVals, Expiry : FieldVals]
\* a request body: either not parseable, or the decoded fields
Bodies == [malformed : BOOLEAN, request : CreateCredentialRequest]

ToServiceRequestSchemaFromContext(c) ==
    [Issuer     |-> c.Issuer,
     Subject    |-> c.Subject,
     Context    |-> c.Context,
     JSONSchema |-> c.Context,
     Data       |-> c.Data,
     Expiry     |-> c.Expiry]

ToServiceRequest(c) ==
    [Issuer     |-> c.Issuer,
     Subject    |-> c.Subject,
     Context    |-> c.Context,
     JSONSchema |-> c.Schema,
     Data       |-> c.Data,
     Expiry     |-> c.Expiry]

\* framework.Decode: parses the body and validates the `validate:"required"`
\* fields of CreateCredentialRequest
Decode(body) ==
    IF body.malformed THEN "malformed body"
    ELSE IF body.request.Issuer = EmptyStr \/ body.request.Subject = EmptyStr
            \/ body.request.Data.isNil THEN "missing required field"
    ELSE NoErr

\* ------------------------------------------------------ errors and responses
\* errors.Wrap(err, msg)
Wrap(err, msg) == [msg |-> msg, cause |-> err]
\* framework.NewRequestError(err, status)
NewRequestError(err, status) ==
    [kind |-> "error", status |-> status, msg |-> err.msg, cause |-> err.cause]
\* framework.NewRequestErrorMsg(msg, status)
NewRequestErrorMsg(msg, status) ==
    [kind |-> "error", status |-> status, msg |-> msg, cause |-> NoErr]
\* framework.Respond(ctx, w, data, status)
Respond(data, status) ==
    [kind |-> "success", status |-> status, body |-> data]
NoBody == [empty |-> TRUE]
NoResponse == [kind |-> "none"]

\* logrus.WithError(err).Error(msg) / logrus.Error(msg)
LogEntry(err, msg) == [msg |-> msg, err |-> err]
\* a call of a Credential Service method
Call(method, arg) == [method |-> method, arg |-> arg]
\* what a handler did: the service calls, the log entries, the response
Outcome(calls, entries, resp) == [calls |-> calls, logs |-> entries, resp |-> resp]

\* ----------------------------------------------------------------- handlers
\* CreateCredential with the decode failure ignored
CreateCredentialOutNoDecodeCheck(body, svc) ==
    LET call == Call("CreateCredential", ToServiceRequest(body.request)) IN
    IF svc.err # NoErr
    THEN LET errMsg == <<"could not create credential">> IN
         Outcome(<<call>>, <<LogEntry(svc.err, errMsg)>>,
                 NewRequestError(Wrap(svc.err, errMsg), StatusInternalServerError))
    ELSE Outcome(<<call>>, << >>,
                 Respond([Credential |-> svc.cred], StatusCreated))

CreateCredentialOut(body, svc) ==
    LET decodeErr == Decode(body) IN
    IF decodeErr # NoErr
    THEN LET errMsg == <<"invalid create credential request">> IN
         Outcome(<< >>, <<LogEntry(decodeErr, errMsg)>>,
                 NewRequestError(Wrap(decodeErr, errMsg), StatusBadRequest))
    ELSE LET call == Call("CreateCredential", ToServiceRequest(body.request)) IN
         IF svc.err # NoErr
         THEN LET errMsg == <<"could not create credential">> IN
              Outcome(<<call>>, <<LogEntry(svc.err, errMsg)>>,
                      NewRequestError(Wrap(svc.err, errMsg), StatusInternalServerError))
         ELSE Outcome(<<call>>, << >>,
                      Respond([Credential |-> svc.cred], StatusCreated))

\* GetCredentialResponse with the ID field left unset
GetCredentialResponseNoID(cred) == [ID |-> EmptyStr, Credential |-> cred]

GetCredentialResponse(cred) == [ID |-> cred.ID, Credential |-> cred]

\* GetCredential reporting the missing id as an internal error
GetCredentialOutMissingIdInternal(rawId, svc) ==
    LET id == GetParam(rawId) IN
    IF id.isNil
    THEN LET errMsg == <<"cannot get credential without ID parameter">> IN
         Outcome(<< >>, <<LogEntry(NoErr, errMsg)>>,
                 NewRequestErrorMsg(errMsg, StatusInternalServerError))
    ELSE LET call == Call("GetCredential", id.val) IN
         IF svc.err # NoErr
         THEN LET errMsg == Sprintf("could not get credential with id: ", id.val) IN
              Outcome(<<call>>, <<LogEntry(svc.err, errMsg)>>,
                      NewRequestError(Wrap(svc.err, errMsg), StatusBadRequest))
         ELSE Outcome(<<call>>, << >>,
                      Respond(GetCredentialResponse(svc.cred), StatusOK))

GetCredentialOut(rawId, svc) ==
    LET id == GetParam(rawId) IN
    IF id.isNil
    THEN LET errMsg == <<"cannot get credential without ID parameter">> IN
         Outcome(<< >>, <<LogEntry(NoErr, errMsg)>>,
                 NewRequestErrorMsg(errMsg, StatusBadRequest))
    ELSE LET call == Call("GetCredential", id.val) IN
         IF svc.err # NoErr
         THEN LET errMsg == Sprintf("could not get credential with id: ", id.val) IN
              Outcome(<<call>>, <<LogEntry(svc.err, errMsg)>>,
                      NewRequestError(Wrap(svc.err, errMsg), StatusBadRequest))
         ELSE Outcome(<<call>>, << >>,
                      Respond(GetCredentialResponse(svc.cred), StatusOK))

\* getCredentialsByIssuer reporting the service failure as a bad request
getCredentialsByIssuerBadRequest(issuer, svc) ==
    LET call == Call("GetCredentialsByIssuer", issuer) IN
    IF svc.err # NoErr
    THEN LET errMsg == Sprintf("could not get credentials for issuer: ", SanitizeLog(issuer)) IN
         Outcome(<<call>>, <<LogEntry(svc.err, errMsg)>>,
                 NewRequestError(Wrap(svc.err, errMsg), StatusBadRequest))
    ELSE Outcome(<<call>>, << >>,
                 Respond([Credentials |-> svc.creds], StatusOK))

getCredentialsByIssuer(issuer, svc) ==
    LET call == Call("GetCredentialsByIssuer", issuer) IN
    IF svc.err # NoErr
    THEN LET errMsg == Sprintf("could not get credentials for issuer: ", SanitizeLog(issuer)) IN
         Outcome(<<call>>, <<LogEntry(svc.err, errMsg)>>,
                 NewRequestError(Wrap(svc.err, errMsg), StatusInternalServerError))
    ELSE Outcome(<<call>>, << >>,
                 Respond([Credentials |-> svc.creds], StatusOK))

\* getCredentialsBySubject formatting the subject as received
getCredentialsBySubjectRaw(subject, svc) ==
    LET call == Call("GetCredentialsBySubject", subject) IN
    IF svc.err # NoErr
    THEN LET errMsg == Sprintf("could not get credentials for subject: ", subject) IN
         Outcome(<<call>>, <<LogEntry(svc.err, errMsg)>>,
                 NewRequestError(Wrap(svc.err, errMsg), StatusInternalServerError))
    ELSE Outcome(<<call>>, << >>,
                 Respond([Credentials |-> svc.creds], StatusOK))

getCredentialsBySubject(subject, svc) ==
    LET call == Call("GetCredentialsBySubject", subject) IN
    IF svc.err # NoErr
    THEN LET errMsg == Sprintf("could not get credentials for subject: ", SanitizeLog(subject)) IN
         Outcome(<<call>>, <<LogEntry(svc.err, errMsg)>>,
                 NewRequestError(Wrap(svc.err, errMsg), StatusInternalServerError))
    ELSE Outcome(<<call>>, << >>,
                 Respond([Credentials |-> svc.creds], StatusOK))

\* getCredentialsBySchema asking the service for the subject's credentials
getCredentialsBySchemaCallsSubject(schema, svc) ==
    LET call == Call("GetCredentialsBySubject", schema) IN
    IF svc.err # NoErr
    THEN LET errMsg == Sprintf("could not get credentials for schema: ", SanitizeLog(schema)) IN
         Outcome(<<call>>, <<LogEntry(svc.err, errMsg)>>,
                 NewRequestError(Wrap(svc.err, errMsg), StatusInternalServerError))
    ELSE Outcome(<<call>>, << >>,
                 Respond([Credentials |-> svc.creds], StatusOK))

getCredentialsBySchema(schema, svc) ==
    LET call == Call("GetCredentialsBySchema", schema) IN
    IF svc.err # NoErr
    THEN LET errMsg == Sprintf("could not get credentials for schema: ", SanitizeLog(schema)) IN
         Outcome(<<call>>, <<LogEntry(svc.err, errMsg)>>,
                 NewRequestError(Wrap(svc.err, errMsg), StatusInternalServerError))
    ELSE Outcome(<<call>>, << >>,
                 Respond([Credentials |-> svc.creds], StatusOK))

\* the multiple-parameter check without its subject-and-schema case
MultipleSetNoSubjectSchema(issuer, subject, schema) ==
    \/ (~issuer.isNil /\ ~subject.isNil)
    \/ (~issuer.isNil /\ ~schema.isNil)

\* "check if there are multiple parameters set, which is not allowed"
MultipleSet(issuer, subject, schema) ==
    \/ (~issuer.isNil /\ ~subject.isNil)
    \/ (~issuer.isNil /\ ~schema.isNil)
    \/ (~subject.isNil /\ ~schema.isNil)

QueryParamMsg == <<"must use one of the following query parameters: issuer, subject, schema">>

GetCredentialsOut(rawIssuer, rawSchema, rawSubject, svc) ==
    LET issuer  == GetQueryValue(rawIssuer)
        schema  == GetQueryValue(rawSchema)
        subject == GetQueryValue(rawSubject)
        err     == NewRequestErrorMsg(QueryParamMsg, StatusBadRequest)
    IN  IF MultipleSet(issuer, subject, schema) THEN Outcome(<< >>, << >>, err)
        ELSE IF ~issuer.isNil THEN getCredentialsByIssuer(issuer.val, svc)
        ELSE IF ~subject.isNil THEN getCredentialsBySubject(subject.val, svc)
        ELSE IF ~schema.isNil THEN getCredentialsBySchema(schema.val, svc)
        ELSE Outcome(<< >>, << >>, err)

\* DeleteCredential reporting the service failure as a bad request
DeleteCredentialOutFailureBadRequest(rawId, svc) ==
    LET id == GetParam(rawId) IN
    IF id.isNil
    THEN LET errMsg == <<"cannot delete credential without ID parameter">> IN
         Outcome(<< >>, <<LogEntry(NoErr, errMsg)>>,
                 NewRequestErrorMsg(errMsg, StatusBadRequest))
    ELSE LET call == Call("DeleteCredential", id.val) IN
         IF svc.err # NoErr
         THEN LET errMsg == Sprintf("could not delete credential with id: ", id.val) IN
              Outcome(<<call>>, <<LogEntry(svc.err, errMsg)>>,
                      NewRequestError(Wrap(svc.err, errMsg), StatusBadRequest))
         ELSE Outcome(<<call>>, << >>, Respond(NoBody, StatusOK))

DeleteCredentialOut(rawId, svc) ==
    LET id == GetParam(rawId) IN
    IF id.isNil
    THEN LET errMsg == <<"cannot delete credential without ID parameter">> IN
         Outcome(<< >>, <<LogEntry(NoErr, errMsg)>>,
                 NewRequestErrorMsg(errMsg, StatusBadRequest))
    ELSE LET call == Call("DeleteCredential", id.val) IN
         IF svc.err # NoErr
         THEN LET errMsg == Sprintf("could not delete credential with id: ", id.val) IN
              Outcome(<<call>>, <<LogEntry(svc.err, errMsg)>>,
                      NewRequestError(Wrap(svc.err, errMsg), StatusInternalServerError))
         ELSE Outcome(<<call>>, << >>, Respond(NoBody, StatusOK))

\* -------------------------------------------------------------------- state
VARIABLES
    pc,        \* "idle": no call in progress; "done": a call has returned
    op,        \* the operation of the last call
    request,   \* what the transport delivered to it
    svcResult, \* what the Credential Service answers to a call made by it
    svcCalls,  \* the Credential Service calls it made, in order
    logs,      \* the log entries it wrote, in order
    response   \* the error it returned, or the response it wrote

vars == <<pc, op, request, svcResult, svcCalls, logs, response>>

RawParams == {NilPtr} \cup {Ptr(s) : s \in Strs}

Init ==
    /\ pc = "idle"
    /\ op = "none"
    /\ request = [none |-> TRUE]
    /\ svcResult = [err |-> NoErr]
    /\ svcCalls = << >>
    /\ logs = << >>
    /\ response = NoResponse

\* a handler ran from its entry to its return
Handled(name, req, svc, out) ==
    /\ pc' = "done"
    /\ op' = name
    /\ request' = req
    /\ svcResult' = IF out.calls = << >> THEN [err |-> NoErr] ELSE svc
    /\ svcCalls' = out.calls
    /\ logs' = out.logs
    /\ response' = out.resp

CreateCredential ==
    /\ pc = "idle"
    /\ \E body \in Bodies, svc \in SvcCredResults :
          Handled("CreateCredential", [body |-> body], svc, CreateCredentialOut(body, svc))

GetCredential ==
    /\ pc = "idle"
    /\ \E rawId \in RawParams, svc \in SvcCredResults :
          Handled("GetCredential", [id |-> rawId], svc, GetCredentialOut(rawId, svc))

GetCredentials ==
    /\ pc = "idle"
    /\ \E rawIssuer \in Strs, rawSchema \in Strs, rawSubject \in Strs, svc \in SvcListResults :
          Handled("GetCredentials",
                  [issuer |-> rawIssuer, schema |-> rawSchema, subject |-> rawSubject],
                  svc, GetCredentialsOut(rawIssuer, rawSchema, rawSubject, svc))

DeleteCredential ==
    /\ pc = "idle"
    /\ \E rawId \in RawParams, svc \in SvcVoidResults :
          Handled("DeleteCredential", [id |-> rawId], svc, DeleteCredentialOut(rawId, svc))

\* the exported translator applied to any wire request
Translate ==
    /\ pc = "idle"
    /\ \E c \in CreateCredentialRequest :
          Handled("ToServiceRequest", [wire |-> c], [err |-> NoErr],
                  Outcome(<< >>, << >>, [kind |-> "value", canonical |-> ToServiceRequest(c)]))

\* the call is over; the router keeps nothing of it
Discard ==
    /\ pc = "done"
    /\ pc' = "idle"
    /\ op' = "none"
    /\ request' = [none |-> TRUE]
    /\ svcResult' = [err |-> NoErr]
    /\ svcCalls' = << >>
    /\ logs' = << >>
    /\ response' = NoResponse

Next ==
    \/ CreateCredential
    \/ GetCredential
    \/ GetCredentials
    \/ DeleteCredential
    \/ Translate
    \/ Discard

Spec == Init /\ [][Next]_vars

\* ------------------------------------------------------------------- claims
Done(name) == pc = "done" /\ op = name
Called == svcCalls # << >>
Failed == Called /\ svcResult.err # NoErr
IsError(status) == response.kind = "error" /\ response.status = status
\* the query parameters of the request that are set
SetFilters == {p \in {"issuer", "subject", "schema"} : request[p] # EmptyStr}
\* every message the call logged or returned
Messages ==
    {logs[i].msg : i \in 1..Len(logs)}
        \cup (IF response.kind = "error" THEN {response.msg} ELSE {})
Unsanitized(v) == v # SanitizeLog(v)
MissingId == request.id.isNil \/ request.id.val = EmptyStr

\* C1: a query with zero, two or three of issuer, subject and schema set
\* returns the BadRequest error with the fixed message and calls no method of
\* the Credential Service.
C1_InvalidFilterCountRejected ==
    (Done("GetCredentials") /\ Cardinality(SetFilters) # 1) =>
        /\ IsError(StatusBadRequest)
        /\ response.msg = QueryParamMsg
        /\ response.cause = NoErr
        /\ svcCalls = << >>

C1_Witness ==
    /\ Done("GetCredentials")
    /\ SetFilters = {"subject", "schema"}
    /\ IsError(StatusBadRequest)

\* C2: a query with exactly one of issuer, subject and schema set calls the
\* matching Credential Service method once, with the supplied value, and calls
\* nothing else.
C2_SingleFilterDispatch ==
    (Done("GetCredentials") /\ Cardinality(SetFilters) = 1) =>
        /\ "issuer" \in SetFilters =>
              svcCalls = <<Call("GetCredentialsByIssuer", request.issuer)>>
        /\ "subject" \in SetFilters =>
              svcCalls = <<Call("GetCredentialsBySubject", request.subject)>>
        /\ "schema" \in SetFilters =>
              svcCalls = <<Call("GetCredentialsBySchema", request.schema)>>

C2_Witness ==
    /\ Done("GetCredentials")
    /\ SetFilters = {"schema"}
    /\ svcCalls = <<Call("GetCredentialsBySchema", request.schema)>>

\* C3: a create request whose issuer, subject or data is missing returns a
\* BadRequest error and never reaches the Credential Service.
C3_InvalidCreateRejected ==
    (/\ Done("CreateCredential")
     /\ \/ request.body.request.Issuer = EmptyStr
        \/ request.body.request.Subject = EmptyStr
        \/ request.body.request.Data.isNil) =>
        /\ IsError(StatusBadRequest)
        /\ svcCalls = << >>

C3_Witness ==
    /\ Done("CreateCredential")
    /\ ~request.body.malformed
    /\ request.body.request.Issuer # EmptyStr
    /\ request.body.request.Subject # EmptyStr
    /\ request.body.request.Data.isNil
    /\ IsError(StatusBadRequest)

\* C4: GetCredential and DeleteCredential with an empty or absent id return a
\* BadRequest error without calling the Credential Service; GetCredential's
\* message is "cannot get credential without ID parameter".
C4_MissingIdRejected ==
    ((Done("GetCredential") \/ Done("DeleteCredential")) /\ MissingId) =>
        /\ IsError(StatusBadRequest)
        /\ svcCalls = << >>
        /\ Done("GetCredential") =>
              response.msg = <<"cannot get credential without ID parameter">>

C4_Witness ==
    /\ Done("GetCredential")
    /\ ~request.id.isNil
    /\ request.id.val = EmptyStr
    /\ IsError(StatusBadRequest)

\* C5: when the Credential Service call fails, the error kind depends on the
\* operation only (400 for GetCredential, 500 for create, the three list
\* queries and delete), the error wraps the service's error, and no success
\* response is written.
C5_FailureKindByOperation ==
    (pc = "done" /\ Failed) =>
        /\ response.kind = "error"
        /\ response.cause = svcResult.err
        /\ response.status =
              IF op = "GetCredential" THEN StatusBadRequest
              ELSE StatusInternalServerError

C5_Witness ==
    /\ Done("DeleteCredential")
    /\ Failed
    /\ IsError(StatusInternalServerError)

\* C6: on success the response carries what the Credential Service returned:
\* create answers 201 with the credential, GetCredential answers 200 with the
\* credential and the credential's own identifier, a query answers 200 with
\* the credentials in the order the service returned them.
C6_SuccessPassThrough ==
    (pc = "done" /\ Called /\ svcResult.err = NoErr) =>
        /\ response.kind = "success"
        /\ op = "CreateCredential" =>
              /\ response.status = StatusCreated
              /\ response.body = [Credential |-> svcResult.cred]
        /\ op = "GetCredential" =>
              /\ response.status = StatusOK
              /\ response.body.Credential = svcResult.cred
              /\ response.body.ID = svcResult.cred.ID
        /\ op = "GetCredentials" =>
              /\ response.status = StatusOK
              /\ response.body = [Credentials |-> svcResult.creds]

C6_Witness ==
    /\ Done("GetCredential")
    /\ Called
    /\ svcResult.err = NoErr
    /\ svcResult.cred.ID # request.id.val
    /\ response.kind = "success"

\* C7: in a query, a filter value that sanitization changes is contained in no
\* log entry and no error message, and the message of a failed list call is
\* the fixed text followed by the sanitized filter value.
C7_QueryLogsSanitized ==
    Done("GetCredentials") =>
        /\ \A p \in SetFilters : \A m \in Messages :
              Unsanitized(request[p]) => ~Contains(m, request[p])
        /\ Failed =>
              \A m \in Messages : \A p \in SetFilters :
                  Tail(m) = SanitizeLog(request[p])

C7_Witness ==
    /\ Done("GetCredentials")
    /\ Failed
    /\ SetFilters = {"subject"}
    /\ Unsanitized(request.subject)
    /\ SanitizeLog(request.subject) # EmptyStr
    /\ Len(logs) = 1

\* C8: the canonical request has the wire request's Issuer, Subject, Context,
\* Data and Expiry, and the wire request's Schema as JSONSchema, for every
\* wire request, valid or not; the request the Credential Service receives on
\* create is that canonical request.
C8_TranslationLossless ==
    /\ Done("ToServiceRequest") =>
          /\ response.canonical.Issuer = request.wire.Issuer
          /\ response.canonical.Subject = request.wire.Subject
          /\ response.canonical.Context = request.wire.Context
          /\ response.canonical.JSONSchema = request.wire.Schema
          /\ response.canonical.Data = request.wire.Data
          /\ response.canonical.Expiry = request.wire.Expiry
          /\ DOMAIN response.canonical =
                {"Issuer", "Subject", "Context", "JSONSchema", "Data", "Expiry"}
    /\ (Done("CreateCredential") /\ Called) =>
          /\ svcCalls[1].arg.Issuer = request.body.request.Issuer
          /\ svcCalls[1].arg.Subject = request.body.request.Subject
          /\ svcCalls[1].arg.Context = request.body.request.Context
          /\ svcCalls[1].arg.JSONSchema = request.body.request.Schema
          /\ svcCalls[1].arg.Data = request.body.request.Data
          /\ svcCalls[1].arg.Expiry = request.body.request.Expiry

C8_Witness ==
    /\ Done("ToServiceRequest")
    /\ request.wire.Issuer = EmptyStr
    /\ request.wire.Data.isNil
    /\ request.wire.Schema # EmptyStr
    /\ request.wire.Schema # request.wire.Context
    /\ response.canonical.JSONSchema = request.wire.Schema

\* C9: every call that returns an error has logged it exactly once.
C9_EveryErrorLoggedOnce ==
    (pc = "done" /\ response.kind = "error") => Len(logs) = 1

\* C10: when GetCredential or DeleteCredential fails in the Credential
\* Service, the log entry and the error message carry the sanitized id, and an
\* id that sanitization changes is contained in neither.
C10_IdLogsSanitized ==
    ((Done("GetCredential") \/ Done("DeleteCredential")) /\ Failed) =>
        \A m \in Messages :
            /\ Tail(m) = SanitizeLog(request.id.val)
            /\ Unsanitized(request.id.val) => ~Contains(m, request.id.val)
====
